---- MODULE Spec2Model ----
(***************************************************************************)
(* callapy.model.Model (src/callapy/model.py): a record of batch liquid    *)
(* adsorption measurements and four closed-form closures (XS, NS, VC, PF)  *)
(* that each return (Q_A, Q_S, V_eq) or raise.                             *)
(*                                                                         *)
(* Python values are records tagged by their type in field t.  A Python    *)
(* float is modelled by the exact rational n/d it denotes (d > 0, lowest   *)
(* terms): arithmetic is the arithmetic of the reals, IEEE rounding is not *)
(* modelled.  An expression that raises evaluates to a record with         *)
(* t = "raise"; operators propagate the first exception in Python's        *)
(* evaluation order.                                                       *)
(***************************************************************************)
EXTENDS Integers, Sequences, FiniteSets, TLC

VARIABLES heap, heap0, call, prev, memo

vars == <<heap, heap0, call, prev, memo>>

(***************************************************************************)
(* Bounds of the model.                                                    *)
(***************************************************************************)
MaxVal == 2     \* V_in, d_in, d_eq range over 1..MaxVal; CA_in, CA_eq over 0..MaxVal
MaxExp == 3     \* the large value of d_A is 10^MaxExp
MaxLen == 3     \* batched fields hold 1..MaxLen elements

(***************************************************************************)
(* Python values.                                                          *)
(***************************************************************************)
None == [t |-> "NoneType"]

Str(s) == [t |-> "str", s |-> s]

Raise(exc, msg) == [t |-> "raise", exc |-> exc, msg |-> msg]

IsRaise(x) == x.t = "raise"

Abs(a) == IF a < 0 THEN -a ELSE a

RECURSIVE GCD(_, _)
GCD(a, b) == IF b = 0 THEN a ELSE GCD(b, a % b)

\* The float denoting n/d (d # 0), in lowest terms with a positive denominator.
Float(n, d) ==
    LET g == GCD(Abs(n), Abs(d))
        s == IF d < 0 THEN -1 ELSE 1
    IN [t |-> "float", n |-> s * (n \div g), d |-> s * (d \div g)]

\* uncertainties.ufloat(nominal, std_dev)
ufloat(nominal, std) == [t |-> "ufloat", nominal |-> nominal, std |-> std]

ndarray(a) == [t |-> "ndarray", a |-> a]

list(a) == [t |-> "list", a |-> a]

Tuple(items) == [t |-> "tuple", items |-> items]

(***************************************************************************)
(* Arithmetic of finite floats (exact).  Products are cross-cancelled      *)
(* first so that intermediate integers stay small.                         *)
(***************************************************************************)
RAdd(x, y) ==
    LET g == GCD(x.d, y.d)
    IN Float(x.n * (y.d \div g) + y.n * (x.d \div g), (x.d \div g) * y.d)

RNeg(x) == [x EXCEPT !.n = -x.n]

RSub(x, y) == RAdd(x, RNeg(y))

RMul(x, y) ==
    LET g1 == GCD(Abs(x.n), y.d)
        g2 == GCD(Abs(y.n), x.d)
    IN IF x.n = 0 \/ y.n = 0 THEN Float(0, 1)
       ELSE Float((x.n \div g1) * (y.n \div g2), (x.d \div g2) * (y.d \div g1))

RInv(y) == Float(y.d, y.n)

RDiv(x, y) == RMul(x, RInv(y))

RLeq(x, y) == x.n * y.d <= y.n * x.d

RAbs(x) == [x EXCEPT !.n = Abs(x.n)]

\* A non-finite float (inf or nan).
NonFinite == [t |-> "float", n |-> 0, d |-> 0]

IsFinite(x) == x.d # 0

\* float.__add__, __sub__, __mul__, __truediv__ on two Python floats.  Only a
\* zero divisor raises; a non-finite operand gives a non-finite result.
FloatOp(op, x, y) ==
    IF op = "/" /\ IsFinite(y) /\ y.n = 0
    THEN Raise("ZeroDivisionError", "float division by zero")
    ELSE IF ~IsFinite(x) \/ ~IsFinite(y) THEN NonFinite
    ELSE CASE op = "+" -> RAdd(x, y)
           [] op = "-" -> RSub(x, y)
           [] op = "*" -> RMul(x, y)
           [] op = "/" -> RDiv(x, y)

\* One element of a numpy ufunc: division by zero gives inf or nan (and a
\* RuntimeWarning), never an exception; a non-finite operand stays non-finite.
ElemOp(op, x, y) ==
    IF op = "/" /\ IsFinite(y) /\ y.n = 0 THEN NonFinite ELSE FloatOp(op, x, y)

\* numpy broadcasting of a float, a list or an ndarray to len elements.
AsArray(x, len) ==
    IF x.t = "float" THEN [i \in 1..len |-> x] ELSE
    IF Len(x.a) = 1 THEN [i \in 1..len |-> x.a[1]] ELSE x.a

\* The elements i..len of a numpy ufunc's result.
RECURSIVE Elementwise(_, _, _, _, _)
Elementwise(op, ax, ay, i, len) ==
    IF i > len THEN <<>>
    ELSE <<ElemOp(op, ax[i], ay[i])>> \o Elementwise(op, ax, ay, i + 1, len)

ArrayOp(op, x, y) ==
    LET lx == IF x.t = "float" THEN 1 ELSE Len(x.a)
        ly == IF y.t = "float" THEN 1 ELSE Len(y.a)
        len == IF lx > ly THEN lx ELSE ly
    IN IF lx # ly /\ lx # 1 /\ ly # 1
       THEN Raise("ValueError", "operands could not be broadcast together")
       ELSE ndarray(Elementwise(op, AsArray(x, len), AsArray(y, len), 1, len))

\* A Python binary operator: the left operand is evaluated first, then the
\* right one, then the operation is dispatched on the operand types.
BinOp(op, x, y) ==
    IF IsRaise(x) THEN x
    ELSE IF IsRaise(y) THEN y
    ELSE IF x.t = "float" /\ y.t = "float" THEN FloatOp(op, x, y)
    ELSE IF (x.t = "ndarray" \/ y.t = "ndarray")
            /\ x.t \in {"float", "list", "ndarray"}
            /\ y.t \in {"float", "list", "ndarray"} THEN ArrayOp(op, x, y)
    ELSE Raise("TypeError", "unsupported operand type(s)")

Add(x, y) == BinOp("+", x, y)

Sub(x, y) == BinOp("-", x, y)

Mul(x, y) == BinOp("*", x, y)

\* Mutant of Div: true division with numpy's semantics for scalars too (a zero
\* divisor gives inf or nan instead of raising).
Div_numpy(x, y) ==
    IF IsRaise(x) THEN x
    ELSE IF IsRaise(y) THEN y
    ELSE IF x.t = "float" /\ y.t = "float" THEN ElemOp("/", x, y)
    ELSE BinOp("/", x, y)

Div(x, y) == BinOp("/", x, y)

One == Float(1, 1)

\* The statements s1; s2; s3; return (Q_A, Q_S, V_eq): the first statement
\* that raises ends the call.
Body(s1, s2, s3, Q_A, Q_S, V_eq) ==
    IF IsRaise(s1) THEN s1
    ELSE IF IsRaise(s2) THEN s2
    ELSE IF IsRaise(s3) THEN s3
    ELSE Tuple(<<Q_A, Q_S, V_eq>>)

(***************************************************************************)
(* Model.__init__(self, **kwargs).  kwargs is a function from the supplied *)
(* keyword names to their values.  dict.pop(key) raises KeyError(key) when *)
(* key is absent; dict.pop(key, None) returns None instead.  The pops run  *)
(* in source order, so the first absent key popped without a default ends  *)
(* the construction.  Keys that are never popped are ignored.              *)
(***************************************************************************)
NoDefault == [t |-> "no default"]

\* kwargs.pop(key) when default is NoDefault, kwargs.pop(key, default) otherwise.
Pop(kwargs, key, default) ==
    IF key \in DOMAIN kwargs THEN kwargs[key]
    ELSE IF default = NoDefault THEN Raise("KeyError", key)
    ELSE default

\* Mutant of Pops: CA_eq is popped with the default None.
Pops_CA_eq_optional ==
    <<[key |-> "V_in", default |-> NoDefault],
      [key |-> "d_in", default |-> NoDefault],
      [key |-> "d_eq", default |-> NoDefault],
      [key |-> "m", default |-> NoDefault],
      [key |-> "CA_in", default |-> NoDefault],
      [key |-> "CA_eq", default |-> None],
      [key |-> "d_A", default |-> None],
      [key |-> "d_S", default |-> None],
      [key |-> "V_p", default |-> None],
      [key |-> "V_units", default |-> NoDefault],
      [key |-> "C_units", default |-> NoDefault],
      [key |-> "m_units", default |-> NoDefault],
      [key |-> "d_units", default |-> NoDefault],
      [key |-> "e_V_in", default |-> None],
      [key |-> "e_d_in", default |-> None],
      [key |-> "e_d_eq", default |-> None],
      [key |-> "e_m", default |-> None],
      [key |-> "e_CA_in", default |-> None]>>

\* The statements self.<key> = kwargs.pop(<key>[, <default>]), in source order.
Pops ==
    <<[key |-> "V_in", default |-> NoDefault],
      [key |-> "d_in", default |-> NoDefault],
      [key |-> "d_eq", default |-> NoDefault],
      [key |-> "m", default |-> NoDefault],
      [key |-> "CA_in", default |-> NoDefault],
      [key |-> "CA_eq", default |-> NoDefault],
      [key |-> "d_A", default |-> None],
      [key |-> "d_S", default |-> None],
      [key |-> "V_p", default |-> None],
      [key |-> "V_units", default |-> NoDefault],
      [key |-> "C_units", default |-> NoDefault],
      [key |-> "m_units", default |-> NoDefault],
      [key |-> "d_units", default |-> NoDefault],
      [key |-> "e_V_in", default |-> None],
      [key |-> "e_d_in", default |-> None],
      [key |-> "e_d_eq", default |-> None],
      [key |-> "e_m", default |-> None],
      [key |-> "e_CA_in", default |-> None]>>

\* The object the statements leave: the attributes assigned, and its type in t.
__init__(kwargs) ==
    LET value(i) == Pop(kwargs, Pops[i].key, Pops[i].default)
        raising == {i \in DOMAIN Pops : IsRaise(value(i))}
        first == CHOOSE i \in raising : \A j \in raising : i <= j
        index(attr) == CHOOSE i \in DOMAIN Pops : Pops[i].key = attr
    IN IF raising # {} THEN value(first)
       ELSE [attr \in {"t"} \cup {Pops[i].key : i \in DOMAIN Pops} |->
                IF attr = "t" THEN "Model" ELSE value(index(attr))]

(***************************************************************************)
(* The four closures.  Each is the method's body, statement by statement.  *)
(* The statement "assert self.attr is not None, msg" is an entry           *)
(* [attr, msg]; the first one that fails raises AssertionError(msg).       *)
(***************************************************************************)
Asserts(self, asserts) ==
    LET failing == {i \in DOMAIN asserts : self[asserts[i].attr] = None}
        first == CHOOSE i \in failing : \A j \in failing : i <= j
    IN IF failing = {} THEN None
       ELSE Raise("AssertionError", asserts[first].msg)

VC_asserts ==
    <<[attr |-> "d_A", msg |-> "Adsorbed density needed for VC method"]>>

\* Mutant of PF_asserts: the asserts in the order d_A, d_S, V_p.
PF_asserts_reordered ==
    <<[attr |-> "d_A", msg |-> "Adsorbed density needed for PC"],
      [attr |-> "d_S", msg |-> "Adsorbed density needed for VC method"],
      [attr |-> "V_p", msg |-> "Pore volume needed for PF method"]>>

PF_asserts ==
    <<[attr |-> "d_A", msg |-> "Adsorbed density needed for PC"],
      [attr |-> "V_p", msg |-> "Pore volume needed for PF method"],
      [attr |-> "d_S", msg |-> "Adsorbed density needed for VC method"]>>

\* Mutant of eval_XS: the parentheses around (CA_in - CA_eq) in Q_S are lost.
eval_XS_unparenthesised(self) ==
    LET Q_A == Div(Mul(self.V_in, Sub(self.CA_in, self.CA_eq)), self.m)
        Q_S == Div(Mul(self.V_in, Sub(Sub(Sub(self.d_in, self.d_eq),
                                          self.CA_in), self.CA_eq)), self.m)
    IN Body(Q_A, Q_S, Q_S, Q_A, Q_S, self.V_in)

eval_XS(self) ==
    LET Q_A == Div(Mul(self.V_in, Sub(self.CA_in, self.CA_eq)), self.m)
        Q_S == Div(Mul(self.V_in, Sub(Sub(self.d_in, self.d_eq),
                                      Sub(self.CA_in, self.CA_eq))), self.m)
    IN Body(Q_A, Q_S, Q_S, Q_A, Q_S, self.V_in)

\* Mutant of eval_NS: V_eq is taken to be V_in, as in the XS closure.
eval_NS_no_volume_change(self) ==
    LET Q_A == Div(Div(Mul(self.V_in,
                           Sub(self.d_in,
                               Mul(Div(self.CA_in, self.CA_eq), self.d_eq))),
                       Sub(One, Div(self.d_eq, self.CA_eq))),
                   self.m)
        Q_S == ufloat(Float(0, 1), Float(0, 1))
    IN Body(Q_A, Q_S, Q_S, Q_A, Q_S, self.V_in)

eval_NS(self) ==
    LET Q_A == Div(Div(Mul(self.V_in,
                           Sub(self.d_in,
                               Mul(Div(self.CA_in, self.CA_eq), self.d_eq))),
                       Sub(One, Div(self.d_eq, self.CA_eq))),
                   self.m)
        V_eq == Div(Sub(Mul(self.V_in, self.CA_in), Mul(self.m, Q_A)),
                    self.CA_eq)
        Q_S == ufloat(Float(0, 1), Float(0, 1))
    IN Body(Q_A, V_eq, Q_S, Q_A, Q_S, V_eq)

\* Mutant of eval_VC: CA_eq * d_A for CA_eq / d_A in the denominator of Q_A.
eval_VC_times(self) ==
    LET Q_A == Div(Mul(self.V_in, Sub(self.CA_in, self.CA_eq)),
                   Mul(self.m, Sub(One, Mul(self.CA_eq, self.d_A))))
        V_eq == Sub(self.V_in, Div(Mul(self.m, Q_A), self.d_A))
        Q_S == Div(Sub(Sub(Mul(self.V_in, self.d_in), Mul(V_eq, self.d_eq)),
                       Mul(self.m, Q_A)),
                   self.m)
    IN IF IsRaise(Asserts(self, VC_asserts)) THEN Asserts(self, VC_asserts)
       ELSE Body(Q_A, V_eq, Q_S, Q_A, Q_S, V_eq)

eval_VC(self) ==
    LET Q_A == Div(Mul(self.V_in, Sub(self.CA_in, self.CA_eq)),
                   Mul(self.m, Sub(One, Div(self.CA_eq, self.d_A))))
        V_eq == Sub(self.V_in, Div(Mul(self.m, Q_A), self.d_A))
        Q_S == Div(Sub(Sub(Mul(self.V_in, self.d_in), Mul(V_eq, self.d_eq)),
                       Mul(self.m, Q_A)),
                   self.m)
    IN IF IsRaise(Asserts(self, VC_asserts)) THEN Asserts(self, VC_asserts)
       ELSE Body(Q_A, V_eq, Q_S, Q_A, Q_S, V_eq)

PF(self) ==
    LET Q_A == Div(Sub(self.CA_in,
                       Mul(Sub(Div(self.d_in, self.d_eq),
                               Div(Mul(Mul(self.V_p, self.d_S), self.m),
                                   Mul(self.V_in, self.d_eq))),
                           self.CA_eq)),
                   Mul(Div(self.m, self.V_in),
                       Add(One,
                           Div(Mul(Sub(Div(self.d_S, self.d_A), One),
                                   self.CA_eq),
                               self.d_eq))))
        Q_S == Mul(Sub(self.V_p, Div(Q_A, self.d_A)), self.d_S)
        V_eq == Div(Sub(Mul(self.V_in, self.CA_in), Mul(self.m, Q_A)),
                    self.CA_eq)
    IN IF IsRaise(Asserts(self, PF_asserts)) THEN Asserts(self, PF_asserts)
       ELSE Body(Q_A, Q_S, V_eq, Q_A, Q_S, V_eq)

(***************************************************************************)
(* State.  heap holds the Model objects constructed so far; call is the    *)
(* last call made on them and its outcome (the returned value or the       *)
(* exception raised).  heap0, prev and memo are history: the heap as the   *)
(* constructions left it, the call before the last one, the first call.    *)
(***************************************************************************)
NoCall == [op |-> "none", inst |-> 0, args |-> {}, out |-> None]

Called(op, inst, args, out) ==
    [op |-> op, inst |-> inst, args |-> args, out |-> out]

Returned(c) == c.op # "none" /\ ~IsRaise(c.out)

Raised(c, exc) == c.op # "none" /\ IsRaise(c.out) /\ c.out.exc = exc

(***************************************************************************)
(* Inputs.                                                                 *)
(***************************************************************************)
RECURSIVE Pow10(_)
Pow10(k) == IF k = 0 THEN 1 ELSE 10 * Pow10(k - 1)

Floats(lo, hi) == {Float(v, 1) : v \in lo..hi}

NoArgs == [k \in {} |-> None]

\* The keyword argument key=v, or nothing when v is None (not supplied).
Arg(key, v) == IF v = None THEN NoArgs ELSE key :> v

UnitArgs ==
    ("V_units" :> Str("mL")) @@ ("C_units" :> Str("g/mL"))
    @@ ("m_units" :> Str("g")) @@ ("d_units" :> Str("g/mL"))

Kwargs(V_in, d_in, d_eq, m, CA_in, CA_eq, d_A, d_S, V_p) ==
    ("V_in" :> V_in) @@ ("d_in" :> d_in) @@ ("d_eq" :> d_eq) @@ ("m" :> m)
    @@ ("CA_in" :> CA_in) @@ ("CA_eq" :> CA_eq)
    @@ Arg("d_A", d_A) @@ Arg("d_S", d_S) @@ Arg("V_p", V_p) @@ UnitArgs

\* The large adsorbed density.
BigDA == Float(Pow10(MaxExp), 1)

\* Calibration values: absent, small, or (d_A only) large.
DAs == {None, BigDA} \cup Floats(1, MaxVal)

DSs == {None, Float(2, 1)}

VPs == {None, Float(1, 2)}

\* Valid scalar measurements on a grid of small values.
GridKwargs ==
    {Kwargs(V_in, d_in, d_eq, m, CA_in, CA_eq, d_A, d_S, V_p) :
        V_in \in Floats(1, MaxVal), d_in \in Floats(1, MaxVal),
        d_eq \in Floats(1, MaxVal), m \in {Float(1, 1), Float(2, 1)},
        CA_in \in Floats(0, MaxVal), CA_eq \in Floats(0, MaxVal),
        d_A \in DAs, d_S \in DSs, V_p \in VPs}

\* V_in=0.1, d_in=1.0, d_eq=0.99, m=0.05, CA_in=0.02, CA_eq=0.01
ScenarioKwargs ==
    {Kwargs(Float(1, 10), Float(1, 1), Float(99, 100), Float(1, 20),
            Float(1, 50), Float(1, 100), d_A, d_S, V_p) :
        d_A \in DAs, d_S \in DSs, V_p \in VPs}

ScalarKwargs == GridKwargs \cup ScenarioKwargs

(***************************************************************************)
(* Actions: one call of a closure on the object heap[i].  No closure       *)
(* assigns to an attribute of self.                                        *)
(***************************************************************************)
Call_eval_XS(i) ==
    /\ call' = Called("eval_XS", i, {}, eval_XS(heap[i]))
    /\ UNCHANGED <<heap, heap0>>

Call_eval_NS(i) ==
    /\ call' = Called("eval_NS", i, {}, eval_NS(heap[i]))
    /\ UNCHANGED <<heap, heap0>>

\* Mutant of Call_eval_VC: the equilibrium volume is stored over self.V_in.
Call_eval_VC_storing(i) ==
    LET out == eval_VC(heap[i])
    IN /\ call' = Called("eval_VC", i, {}, out)
       /\ heap' = IF IsRaise(out) THEN heap
                  ELSE [heap EXCEPT ![i].V_in = out.items[3]]
       /\ UNCHANGED heap0

\* Mutant of Call_eval_VC: d_A is read from state shared by all objects, which
\* holds the d_A of the object of the call before.
Call_eval_VC_shared(i) ==
    LET d_A == IF call.op = "none" THEN heap[i].d_A ELSE heap[call.inst].d_A
    IN /\ call' = Called("eval_VC", i, {}, eval_VC([heap[i] EXCEPT !.d_A = d_A]))
       /\ UNCHANGED <<heap, heap0>>

Call_eval_VC(i) ==
    /\ call' = Called("eval_VC", i, {}, eval_VC(heap[i]))
    /\ UNCHANGED <<heap, heap0>>

Call_PF(i) ==
    /\ call' = Called("PF", i, {}, PF(heap[i]))
    /\ UNCHANGED <<heap, heap0>>

\* The history of calls is kept (Tracked) or not (Untracked).
Untracked == UNCHANGED <<prev, memo>>

Tracked ==
    /\ prev' = call
    /\ memo' = IF memo = NoCall THEN call' ELSE memo

(***************************************************************************)
(* Spec: one scalar Model, constructed from valid measurements, on which   *)
(* the closures are called any number of times in any order.               *)
(***************************************************************************)
Init ==
    /\ \E kwargs \in ScalarKwargs : heap = <<__init__(kwargs)>>
    /\ heap0 = heap
    /\ call = NoCall
    /\ prev = NoCall
    /\ memo = NoCall

Next ==
    \/ \E i \in DOMAIN heap : Call_eval_XS(i) /\ Untracked
    \/ \E i \in DOMAIN heap : Call_eval_NS(i) /\ Untracked
    \/ \E i \in DOMAIN heap : Call_eval_VC(i) /\ Untracked
    \/ \E i \in DOMAIN heap : Call_PF(i) /\ Untracked

Spec == Init /\ [][Next]_vars

(***************************************************************************)
(* SpecSeq: two Model objects and the closures called on them in any       *)
(* order; prev and memo record the call before the last and the first one. *)
(***************************************************************************)
\* The scenario measurement or one with CA_eq = d_eq, without calibration
\* or with all of it.
SeqKwargs ==
    {Kwargs(Float(1, 10), Float(1, 1), Float(99, 100), Float(1, 20),
            Float(1, 50), CA_eq, cal[1], cal[2], cal[3]) :
        CA_eq \in {Float(1, 100), Float(99, 100)},
        cal \in {<<None, None, None>>, <<Float(1, 1), Float(2, 1), Float(1, 2)>>}}

InitSeq ==
    /\ \E a \in SeqKwargs, b \in SeqKwargs : heap = <<__init__(a), __init__(b)>>
    /\ heap0 = heap
    /\ call = NoCall
    /\ prev = NoCall
    /\ memo = NoCall

NextSeq ==
    \/ \E i \in DOMAIN heap : Call_eval_XS(i) /\ Tracked
    \/ \E i \in DOMAIN heap : Call_eval_NS(i) /\ Tracked
    \/ \E i \in DOMAIN heap : Call_eval_VC(i) /\ Tracked
    \/ \E i \in DOMAIN heap : Call_PF(i) /\ Tracked

SpecSeq == InitSeq /\ [][NextSeq]_vars

(***************************************************************************)
(* SpecCtor: one construction of a Model with any set of keyword       *)
(* arguments, then the closures on the object, if it left one.             *)
(***************************************************************************)
Mandatory == {"V_in", "d_in", "d_eq", "m", "CA_in", "CA_eq"}

Calibration == {"d_A", "d_S", "V_p"}

Units == {"V_units", "C_units", "m_units", "d_units"}

Uncertainties == {"e_V_in", "e_d_in", "e_d_eq", "e_m", "e_CA_in", "e_CA_eq"}

CtorKeys == Mandatory \cup Calibration \cup Units \cup Uncertainties

CtorValue(key) ==
    CASE key = "V_in" -> Float(1, 10)
      [] key = "d_in" -> Float(1, 1)
      [] key = "d_eq" -> Float(99, 100)
      [] key = "m" -> Float(1, 20)
      [] key = "CA_in" -> Float(1, 50)
      [] key = "CA_eq" -> Float(1, 100)
      [] key = "d_A" -> Float(1, 1)
      [] key = "d_S" -> Float(2, 1)
      [] key = "V_p" -> Float(1, 2)
      [] key \in Units -> UnitArgs[key]
      [] key \in Uncertainties -> Float(1, 1000)

\* Any of the mandatory fields, of the calibration fields and of the unit
\* labels, with all the uncertainties or with none.
CtorKwargs ==
    {[key \in M \cup C \cup U \cup E |-> CtorValue(key)] :
        M \in SUBSET Mandatory, C \in SUBSET Calibration,
        U \in SUBSET Units, E \in {{}, Uncertainties}}

\* The call of the class: the object is kept only if __init__ returns.
Construct ==
    /\ call = NoCall
    /\ \E kwargs \in CtorKwargs :
        LET self == __init__(kwargs)
        IN IF IsRaise(self)
           THEN /\ call' = Called("__init__", 0, DOMAIN kwargs, self)
                /\ heap' = heap
           ELSE /\ call' = Called("__init__", Len(heap) + 1, DOMAIN kwargs, None)
                /\ heap' = Append(heap, self)
    /\ heap0' = heap'
    /\ UNCHANGED <<prev, memo>>

InitCtor ==
    /\ heap = <<>>
    /\ heap0 = <<>>
    /\ call = NoCall
    /\ prev = NoCall
    /\ memo = NoCall

NextCtor ==
    \/ Construct
    \/ Next

SpecCtor == InitCtor /\ [][NextCtor]_vars

(***************************************************************************)
(* SpecBatch: one Model whose six mandatory fields are sequences of the    *)
(* same length, numpy arrays or Python lists.                              *)
(***************************************************************************)
Sequence(kind, a) == IF kind = "ndarray" THEN ndarray(a) ELSE list(a)

Constant(len, v) == [i \in 1..len |-> v]

BatchKwargs ==
    UNION {
        {Kwargs(Sequence(kind, Constant(len, Float(1, 1))),
                Sequence(kind, Constant(len, Float(4, 1))),
                Sequence(kind, Constant(len, Float(3, 1))),
                Sequence(kind, m),
                Sequence(kind, Constant(len, Float(2, 1))),
                Sequence(kind, CA_eq),
                d_A, d_S, V_p) :
            kind \in {"ndarray", "list"},
            m \in [1..len -> {Float(1, 1), Float(2, 1)}],
            CA_eq \in [1..len -> {Float(1, 1), Float(2, 1)}],
            d_A \in {None, Float(5, 1)},
            d_S \in {None, Float(2, 1)},
            V_p \in {None, Float(1, 2)}} :
        len \in 1..MaxLen}

InitBatch ==
    /\ \E kwargs \in BatchKwargs : heap = <<__init__(kwargs)>>
    /\ heap0 = heap
    /\ call = NoCall
    /\ prev = NoCall
    /\ memo = NoCall

SpecBatch == InitBatch /\ [][Next]_vars

(***************************************************************************)
(* Properties of Spec.  In each, self is the object of the last call and   *)
(* (Q_A, Q_S, V_eq) the triple it returned.                                *)
(***************************************************************************)
Self == heap[call.inst]

Closures == {"eval_XS", "eval_NS", "eval_VC", "PF"}

\* The number a returned component denotes (a ufloat's nominal value).
Nominal(v) == IF v.t = "ufloat" THEN v.nominal ELSE v

Triple(out) == [i \in 1..3 |-> Nominal(out.items[i])]

\* V_in*d_in = V_eq*d_eq + m*(Q_A + Q_S)
TotalBalance(self, Q_A, Q_S, V_eq) ==
    RMul(self.V_in, self.d_in)
        = RAdd(RMul(V_eq, self.d_eq), RMul(self.m, RAdd(Q_A, Q_S)))

\* V_in*CA_in = V_eq*CA_eq + m*Q_A
ComponentBalance(self, Q_A, V_eq) ==
    RMul(self.V_in, self.CA_in) = RAdd(RMul(V_eq, self.CA_eq), RMul(self.m, Q_A))

\* C1: whenever one of the four closures returns a triple, the triple
\* satisfies the total and the component mass balance with the inputs.
C1_MassBalance ==
    (call.op \in Closures /\ Returned(call)) =>
        LET r == Triple(call.out)
        IN /\ TotalBalance(Self, r[1], r[2], r[3])
           /\ ComponentBalance(Self, r[1], r[3])

C1_Witness ==
    /\ call.op = "PF" /\ Returned(call)
    /\ Triple(call.out)[2].n # 0
    /\ Triple(call.out)[3] # Self.V_in

IsScenario(self) ==
    /\ self.V_in = Float(1, 10) /\ self.d_in = Float(1, 1)
    /\ self.d_eq = Float(99, 100) /\ self.m = Float(1, 20)
    /\ self.CA_in = Float(1, 50) /\ self.CA_eq = Float(1, 100)

Quantity(msg) ==
    CASE msg = "Adsorbed density needed for VC method" -> "Adsorbed density"
      [] msg = "Adsorbed density needed for PC" -> "Adsorbed density"
      [] msg = "Pore volume needed for PF method" -> "Pore volume"
      [] OTHER -> "nothing"

\* The quantity each calibration attribute holds, as the docstrings put it.
Describes(attr) ==
    CASE attr = "d_A" -> "Adsorbed density"
      [] attr = "d_S" -> "Adsorbed density"
      [] attr = "V_p" -> "Pore volume"

AbsentIn(self, order) == {i \in DOMAIN order : self[order[i]] = None}

FirstAbsent(self, order) ==
    order[CHOOSE i \in AbsentIn(self, order) :
                \A j \in AbsentIn(self, order) : i <= j]

\* The failure of the last call names the first attribute of order that is None.
NamesFirstAbsent(order) ==
    /\ Raised(call, "AssertionError")
    /\ Quantity(call.out.msg) = Describes(FirstAbsent(Self, order))

CalibrationChecked(PF_order) ==
    /\ (call.op = "eval_VC" /\ Self.d_A = None) => NamesFirstAbsent(<<"d_A">>)
    /\ (call.op = "PF" /\ AbsentIn(Self, PF_order) # {}) =>
            NamesFirstAbsent(PF_order)

Tolerance == Float(4 * MaxVal * MaxVal * MaxVal, Pow10(MaxExp))

\* Each component of the triple a is within Tolerance of that of b.
Within(a, b) == \A i \in 1..3 : RLeq(RAbs(RSub(a[i], b[i])), Tolerance)

\* The last call was closure op with the large d_A, its triple is near that of
\* eval_XS on the same object.
NearXS(op) ==
    (call.op = op /\ Self.d_A = BigDA /\ Returned(call)) =>
        Within(Triple(call.out), Triple(eval_XS(Self)))

C8_ReadOnly == heap = heap0

C8_Witness ==
    /\ Returned(memo)
    /\ prev.op \in Closures /\ IsRaise(prev.out)
    /\ Returned(call) /\ call.inst = prev.inst /\ call.inst = memo.inst
    /\ heap = heap0

\* Two calls of the same closure on objects with equal attributes.
SameCall(c1, c2) ==
    /\ c1.op \in Closures
    /\ c1.op = c2.op
    /\ heap[c1.inst] = heap[c2.inst]

\* C9: a closure called on an object gives the outcome (triple or
\* exception) that the same closure gave on an object with the same
\* attributes as the first call of the run and as the call just before,
\* whatever was called in between and whether or not it raised.
C9_OrderIndependent ==
    /\ SameCall(memo, call) => call.out = memo.out
    /\ SameCall(prev, call) => call.out = prev.out

\* eval_VC returns on one object, PF then fails on the other for want of
\* calibration, and eval_VC returns on the first object again.
C9_Witness ==
    /\ SameCall(memo, call) /\ call.inst = memo.inst
    /\ call.op = "eval_VC" /\ Returned(call)
    /\ prev.op = "PF" /\ Raised(prev, "AssertionError")
    /\ prev.inst # call.inst

(***************************************************************************)
(* Properties of SpecCtor.                                                 *)
(***************************************************************************)
\* C4: a construction that is not given all six mandatory fields raises
\* KeyError for one of the absent ones and leaves no object, whatever
\* other arguments it is given.
C4_MissingField ==
    (call.op = "__init__" /\ ~(Mandatory \subseteq call.args)) =>
        /\ Raised(call, "KeyError")
        /\ call.out.msg \in Mandatory \ call.args
        /\ heap = <<>>

C4_Witness ==
    /\ call.op = "__init__"
    /\ call.args = CtorKeys \ {"CA_eq"}
    /\ Raised(call, "KeyError") /\ call.out.msg = "CA_eq"
    /\ heap = <<>>

\* C5 (as claimed): a construction given exactly the six mandatory fields
\* returns an object whose unit labels are "", whose d_A, d_S and V_p are
\* None and whose uncertainties are all None.
C5_AsClaimed ==
    (call.op = "__init__" /\ call.args = Mandatory) =>
        /\ Returned(call)
        /\ Len(heap) = 1
        /\ \A attr \in Units : heap[1][attr] = Str("")
        /\ \A attr \in Calibration : heap[1][attr] = None
        /\ \A attr \in Uncertainties :
                attr \in DOMAIN heap[1] /\ heap[1][attr] = None

(***************************************************************************)
(* Properties of SpecBatch.                                                *)
(***************************************************************************)
Apply(op, self) ==
    CASE op = "eval_XS" -> eval_XS(self)
      [] op = "eval_NS" -> eval_NS(self)
      [] op = "eval_VC" -> eval_VC(self)
      [] op = "PF" -> PF(self)

IsSequence(v) == v.t \in {"ndarray", "list"}

\* The measurement made of the i-th elements of the batched fields.
ScalarAt(self, i) ==
    [attr \in DOMAIN self |->
        IF attr \in Mandatory THEN self[attr].a[i] ELSE self[attr]]

\* C10 (as claimed): on a batch of n measurements each closure (given the
\* calibration it needs) returns three sequences of length n, whose i-th
\* elements are what the closure returns on the i-th measurement alone.
C10_AsClaimed ==
    (call.op \in Closures /\ IsSequence(Self.V_in)
        /\ ~Raised(call, "AssertionError")) =>
        /\ Returned(call)
        /\ \A c \in 1..3 :
            /\ IsSequence(call.out.items[c])
            /\ Len(call.out.items[c].a) = Len(Self.V_in.a)
            /\ \A i \in 1..Len(Self.V_in.a) :
                call.out.items[c].a[i]
                    = Triple(Apply(call.op, ScalarAt(Self, i)))[c]

====
